---- MODULE Spec2Model ----
(***************************************************************************)
(* Model of recommender_helper.py: colour utilities, the colour extractor, *)
(* the palette matcher (recommend_complementary_colors), the compositor    *)
(* (apply_makeup_directly) and the mask builder                            *)
(* (add_reverse_mask_and_lips); and of the catalog filter                  *)
(* (_filter_and_serialize) of recognition_Service.py.                      *)
(*                                                                         *)
(* Every function of the module is synchronous; each component is checked  *)
(* under its own specification (SpecMatcher, SpecExtractor, ...), in which *)
(* the variables of the other components keep their initial values.        *)
(*                                                                         *)
(* Colours are triples <<c1, c2, c3>> of integers 0..255; the order of the *)
(* channels (RGB or BGR) is stated where the colour is used.               *)
(***************************************************************************)
EXTENDS Integers, Sequences, FiniteSets, TLC

VARIABLES
    \* ---- palette matcher: recommend_complementary_colors ----
    pc,                     \* position of the matcher
    color_scheme,           \* the loaded palette (hex strings)
    average_skin_color,     \* argument, RGB
    average_lip_color,      \* argument, RGB
    closest_foundation,     \* local, a palette entry [hex |-> ...]
    closest_eyeshadow,      \* local, a palette entry
    foundation_brightness,  \* local
    lipstick_color,         \* local, RGB
    lipstick_brightness,    \* local
    returned,               \* the returned triple of colours, <<>> if none
    raised,                 \* the exception that left the function, "" if none
    \* ---- colour extractor: compute_mean_skin_color / compute_mean_lip_color ----
    ex_pc,                  \* "idle", or "done" after a call
    frame,                  \* argument: the image, BGR, one pixel per index
    region_mask,            \* argument: face_mask or lips_mask, one cell per pixel
    extracted,              \* the function called, the line that returned, the colour
    \* ---- compositor: apply_makeup_directly, chained as in the workflow ----
    co_pc,                  \* "start", "l101", "l102" or "done"
    image,                  \* the caller's image, BGR, reassigned by each call
    face_mask,              \* mask of the first call
    lips_mask,              \* mask of the second call
    calls,                  \* the calls made: arguments and returned image
    \* ---- mask builder: add_reverse_mask_and_lips ----
    mb_pc,                  \* "idle", or "done" after a call
    idx_to_coordinates,     \* argument: landmark index -> <<x, y>>
    lip_connections,        \* argument: the lip index list
    built,                  \* the returned pair of masks
    \* ---- HEX <-> RGB: hex_to_rgb followed by rgb_to_hex ----
    hx_pc,                  \* "idle", "parsed", "formatted" or "raised"
    hx_hex_color,           \* argument of hex_to_rgb
    hx_rgb,                 \* the tuple hex_to_rgb returned
    hx_hex_string,          \* the string rgb_to_hex returned
    \* ---- darken_color applied to its own result ----
    dk_pc,                  \* "idle" or "darkening"
    dk_color,               \* the colour after dk_steps applications
    dk_previous,            \* the colour before the last application
    dk_steps,               \* the applications made
    \* ---- catalog filter: _filter_and_serialize (recognition_Service.py) ----
    fs_pc,                  \* "idle", or "done" after a call
    fs_df,                  \* argument: the product table, a sequence of rows
    fs_season,              \* argument
    fs_skin_type,           \* argument
    fs_pool_n,              \* argument
    fs_sample_k,            \* argument
    fs_response             \* the rows returned, or the exception raised

matcherVars == <<pc, color_scheme, average_skin_color, average_lip_color,
                 closest_foundation, closest_eyeshadow, foundation_brightness,
                 lipstick_color, lipstick_brightness, returned, raised>>

extractorVars == <<ex_pc, frame, region_mask, extracted>>

compositorVars == <<co_pc, image, face_mask, lips_mask, calls>>

builderVars == <<mb_pc, idx_to_coordinates, lip_connections, built>>

hexVars == <<hx_pc, hx_hex_color, hx_rgb, hx_hex_string>>

darkenVars == <<dk_pc, dk_color, dk_previous, dk_steps>>

filterVars == <<fs_pc, fs_df, fs_season, fs_skin_type, fs_pool_n, fs_sample_k, fs_response>>

utilityVars == <<hexVars, darkenVars, filterVars>>

vars == <<matcherVars, extractorVars, compositorVars, builderVars, utilityVars>>

notMatcher == <<extractorVars, compositorVars, builderVars, utilityVars>>
notExtractor == <<matcherVars, compositorVars, builderVars, utilityVars>>
notCompositor == <<matcherVars, extractorVars, builderVars, utilityVars>>
notBuilder == <<matcherVars, extractorVars, compositorVars, utilityVars>>
componentVars == <<matcherVars, extractorVars, compositorVars, builderVars>>
notHex == <<componentVars, darkenVars, filterVars>>
notDarken == <<componentVars, hexVars, filterVars>>
notFilter == <<componentVars, hexVars, darkenVars>>

(***************************************************************************)
(* Bounds of the model.                                                    *)
(***************************************************************************)
MaxPaletteLen == 2      \* longest list of a palette category
FramePixels == 3        \* pixels (height * width) of a frame given to the extractor
ImagePixels == 2        \* pixels (height * width) of an image given to the compositor
MaskWidth == 5          \* mask.shape[1] of the array given to the mask builder
MaskHeight == 5         \* mask.shape[0] of the array given to the mask builder
MaxRows == 3            \* rows of a product table given to the catalog filter
MaxDarkenSteps == 40    \* applications of darken_color followed on one colour
StepsToBlack == 37      \* applications after which every colour is claimed (0, 0, 0)

(***************************************************************************)
(* HEX <-> RGB.  A hex string is a sequence of one-character strings.      *)
(***************************************************************************)
LowerHex == <<"0","1","2","3","4","5","6","7","8","9","a","b","c","d","e","f">>
UpperHex == <<"0","1","2","3","4","5","6","7","8","9","A","B","C","D","E","F">>

\* the value of every hex digit, either case
HexTable ==
    [ch \in {LowerHex[i] : i \in 1..16} \cup {UpperHex[i] : i \in 1..16} |->
        (CHOOSE i \in 1..16 : LowerHex[i] = ch \/ UpperHex[i] = ch) - 1]

IsHexDigit(ch) == ch \in DOMAIN HexTable

HexDigitValue(ch) == HexTable[ch]

\* str.lstrip("#"): every leading "#" is removed
RECURSIVE lstrip(_)
lstrip(s) == IF s # <<>> /\ Head(s) = "#" THEN lstrip(Tail(s)) ELSE s

\* Python slice s[i:j] for 0 <= i <= j (clipped to the length of s)
Slice(s, i, j) ==
    LET hi == IF j < Len(s) THEN j ELSE Len(s)
    IN  IF i >= hi THEN <<>> ELSE SubSeq(s, i + 1, hi)

\* int(t, 16) for a slice of at most two characters drawn from hex digits,
\* "#" and letters that are no hex digit: a value, or ValueError (ok = FALSE)
int16(t) ==
    IF t # <<>> /\ \A k \in 1..Len(t) : IsHexDigit(t[k])
    THEN [ok |-> TRUE,
          val |-> IF Len(t) = 1 THEN HexDigitValue(t[1])
                  ELSE 16 * HexDigitValue(t[1]) + HexDigitValue(t[2])]
    ELSE [ok |-> FALSE, val |-> 0]

hex_to_rgb_raises(hex_color) ==
    LET s == lstrip(hex_color)
    IN  \E i \in {0, 2, 4} : ~int16(Slice(s, i, i + 2)).ok

hex_to_rgb(hex_color) ==
    LET s == lstrip(hex_color)
    IN  <<int16(Slice(s, 0, 2)).val, int16(Slice(s, 2, 4)).val,
          int16(Slice(s, 4, 6)).val>>

\* strings hex_to_rgb raises ValueError on: the CSS short form, and a letter
\* that is no hex digit
MalformedHex == { <<"#", "f", "f", "f">>, <<"#", "g", "g", "0", "0", "0", "0">> }

\* "{:x}".format(v) for 0 <= v <= 255: lower-case digits, no padding
format_x(v) ==
    IF v < 16 THEN <<LowerHex[v + 1]>>
    ELSE <<LowerHex[(v \div 16) + 1], LowerHex[(v % 16) + 1]>>

\* "{:02x}".format(v) for 0 <= v <= 255: two lower-case digits, zero padded
format_02x(v) == <<LowerHex[(v \div 16) + 1], LowerHex[(v % 16) + 1]>>

\* "#{:02x}{:02x}{:02x}".format(*rgb), line 129
rgb_to_hex(color) ==
    <<"#">> \o format_02x(color[1]) \o format_02x(color[2]) \o format_02x(color[3])

(***************************************************************************)
(* Colour arithmetic.                                                      *)
(***************************************************************************)
\* np.sqrt(np.sum((c1 - c2) ** 2)): the value kept here is the radicand, an
\* integer of at most 3 * 255^2; the square root in double precision is
\* strictly increasing on these integers, so every comparison of two
\* distances is the comparison of their radicands.
calculate_color_distance(color1, color2) ==
    (color1[1] - color2[1]) * (color1[1] - color2[1])
  + (color1[2] - color2[2]) * (color1[2] - color2[2])
  + (color1[3] - color2[3]) * (color1[3] - color2[3])

\* 0.299 R + 0.587 G + 0.114 B, kept in thousandths.  Evaluated in doubles
\* the code orders two colours whose exact values differ exactly like this.
calculate_brightness(color) ==
    299 * color[1] + 587 * color[2] + 114 * color[3]

\* max(0, round(c * factor)): the product rounded to nearest, not truncated
darken_channel_rounded(c) ==
    LET t == (c * 9 + 5) \div 10 IN IF t > 0 THEN t ELSE 0

\* max(0, int(c * factor)) with factor = 0.9: int() truncates, and c * 0.9 in
\* doubles truncates to floor(9c / 10) for every c in 0..255
darken_channel(c) ==
    LET t == (c * 9) \div 10 IN IF t > 0 THEN t ELSE 0

darken_color(color) ==
    <<darken_channel(color[1]), darken_channel(color[2]), darken_channel(color[3])>>

(***************************************************************************)
(* Palette matcher.                                                        *)
(***************************************************************************)
NoEntry == [hex |-> <<>>]

\* min(colors, key = lambda e: calculate_color_distance(hex_to_rgb(e['hex']),
\* target)): min() raises ValueError on an empty sequence, the key raises
\* ValueError on a malformed hex string, and the first of the entries with
\* the least key is the result.
closest_color_default(colors, target) ==
    IF Len(colors) = 0
    THEN [raised |-> "", entry |-> [hex |-> <<"#","0","0","0","0","0","0">>]]
    ELSE LET key == [i \in 1..Len(colors) |->
                       calculate_color_distance(hex_to_rgb(colors[i].hex), target)]
             m == CHOOSE i \in 1..Len(colors) :
                     /\ \A j \in 1..Len(colors) : key[i] <= key[j]
                     /\ \A j \in 1..(i - 1) : key[i] < key[j]
         IN  [raised |-> "", entry |-> colors[m]]

closest_color_last(colors, target) ==
    IF Len(colors) = 0
    THEN [raised |-> "ValueError: min() arg is an empty sequence", entry |-> NoEntry]
    ELSE LET key == [i \in 1..Len(colors) |->
                       calculate_color_distance(hex_to_rgb(colors[i].hex), target)]
             m == CHOOSE i \in 1..Len(colors) :
                     /\ \A j \in 1..Len(colors) : key[i] <= key[j]
                     /\ \A j \in (i + 1)..Len(colors) : key[i] < key[j]
         IN  [raised |-> "", entry |-> colors[m]]

closest_color(colors, target) ==
    IF Len(colors) = 0
    THEN [raised |-> "ValueError: min() arg is an empty sequence", entry |-> NoEntry]
    ELSE IF \E i \in 1..Len(colors) : hex_to_rgb_raises(colors[i].hex)
    THEN [raised |-> "ValueError: invalid literal for int() with base 16",
          entry |-> NoEntry]
    ELSE LET key == [i \in 1..Len(colors) |->
                       calculate_color_distance(hex_to_rgb(colors[i].hex), target)]
             m == CHOOSE i \in 1..Len(colors) :
                     /\ \A j \in 1..Len(colors) : key[i] <= key[j]
                     /\ \A j \in 1..(i - 1) : key[i] < key[j]
         IN  [raised |-> "", entry |-> colors[m]]

\* the test of the while loop, line 222
while_condition_strict(lip_b, found_b) == lip_b > found_b

while_condition(lip_b, found_b) == lip_b >= found_b

\* ---- inputs of the matcher ----
FoundationHex ==
    { <<"#","0","0","0","0","0","0">>,      \* (0, 0, 0)
      <<"#","6","4","6","e","6","4">>,      \* (100, 110, 100)
      <<"#","6","4","5","a","6","4">> }     \* (100, 90, 100)

EyeshadowHex ==
    { <<"#","6","e","6","4","6","4">>,      \* (110, 100, 100)
      <<"5","a","6","4","6","4">> }         \* (90, 100, 100), no prefix

LipstickHex ==
    { <<"#","9","6","3","2","4","6">>,      \* (150, 50, 70)
      <<"#","6","4","6","E","6","4">> }     \* (100, 110, 100)

SkinColors == { <<200, 180, 160>>, <<100, 100, 100>> }
LipColors  == { <<150, 50, 70>>, <<100, 100, 100>> }

SeqsUpTo(S, n) == UNION { [1..k -> S] : k \in 0..n }

Entries(H) == { [hex |-> h] : h \in H }

WellFormedSchemes ==
    [ foundation_colors : SeqsUpTo(Entries(FoundationHex), MaxPaletteLen),
      eyeshadow_colors  : SeqsUpTo(Entries(EyeshadowHex), MaxPaletteLen),
      lipstick_colors   : SeqsUpTo(Entries(LipstickHex), MaxPaletteLen) ]

\* palettes of one well-formed entry per category, with a malformed entry
\* written first into one category or appended to it
MalformedSchemes ==
    LET base == [foundation_colors |-> <<[hex |-> <<"#","6","4","6","e","6","4">>]>>,
                 eyeshadow_colors  |-> <<[hex |-> <<"#","6","e","6","4","6","4">>]>>,
                 lipstick_colors   |-> <<[hex |-> <<"#","9","6","3","2","4","6">>]>>]
    IN  { [base EXCEPT ![cat] = IF first THEN <<[hex |-> h]>> \o @
                                ELSE @ \o <<[hex |-> h]>>] :
            cat \in DOMAIN base, h \in MalformedHex, first \in BOOLEAN }

Schemes == WellFormedSchemes \cup MalformedSchemes

NoScheme == [foundation_colors |-> <<>>, eyeshadow_colors |-> <<>>,
             lipstick_colors |-> <<>>]

InitExtractorIdle ==
    /\ ex_pc = "idle"
    /\ frame = <<>>
    /\ region_mask = <<>>
    /\ extracted = [fn |-> "", line |-> 0, color |-> <<>>]

InitCompositorIdle ==
    /\ co_pc = "start"
    /\ image = <<>>
    /\ face_mask = <<>>
    /\ lips_mask = <<>>
    /\ calls = <<>>

InitBuilderIdle ==
    /\ mb_pc = "idle"
    /\ idx_to_coordinates = <<>>
    /\ lip_connections = <<>>
    /\ built = [face_mask |-> <<>>, lips_mask |-> <<>>]

InitHexIdle ==
    /\ hx_pc = "idle"
    /\ hx_hex_color = <<>>
    /\ hx_rgb = <<>>
    /\ hx_hex_string = <<>>

InitDarkenIdle ==
    /\ dk_pc = "idle"
    /\ dk_color = <<>>
    /\ dk_previous = <<>>
    /\ dk_steps = 0

InitFilterIdle ==
    /\ fs_pc = "idle"
    /\ fs_df = <<>>
    /\ fs_season = <<>>
    /\ fs_skin_type = <<>>
    /\ fs_pool_n = 0
    /\ fs_sample_k = 0
    /\ fs_response = [raised |-> "", sampled |-> <<>>, json |-> <<>>]

InitMatcherIdle ==
    /\ pc = "start"
    /\ color_scheme = NoScheme
    /\ average_skin_color = <<>>
    /\ average_lip_color = <<>>
    /\ closest_foundation = NoEntry
    /\ closest_eyeshadow = NoEntry
    /\ foundation_brightness = 0
    /\ lipstick_color = <<>>
    /\ lipstick_brightness = 0
    /\ returned = <<>>
    /\ raised = ""

\* load_color_scheme: json.load of the palette file, nothing is validated
load_color_scheme ==
    /\ pc = "start"
    /\ \E scheme \in Schemes : color_scheme' = scheme
    /\ pc' = "ready"
    /\ UNCHANGED <<average_skin_color, average_lip_color, closest_foundation,
                   closest_eyeshadow, foundation_brightness, lipstick_color,
                   lipstick_brightness, returned, raised>>
    /\ UNCHANGED notMatcher

\* recommend_complementary_colors, lines 199-219: from the call to the first
\* test of the loop, or to the exception that leaves the function.  A call
\* reads the palette and its two arguments and nothing a former call left, so
\* a behaviour follows one call.
recommend_complementary_colors ==
    /\ pc = "ready"
    /\ \E skin \in SkinColors, lip \in LipColors :
        LET f == closest_color(color_scheme.foundation_colors, skin)
            e == closest_color(color_scheme.eyeshadow_colors, skin)
            l == closest_color(color_scheme.lipstick_colors, lip)
            exc == IF f.raised # "" THEN f.raised
                   ELSE IF e.raised # "" THEN e.raised
                   ELSE l.raised
        IN  /\ average_skin_color' = skin
            /\ average_lip_color' = lip
            /\ returned' = <<>>
            /\ raised' = exc
            /\ IF exc # ""
               THEN /\ pc' = "raised"
                    /\ closest_foundation' = f.entry
                    /\ closest_eyeshadow' = IF f.raised = "" THEN e.entry ELSE NoEntry
                    /\ foundation_brightness' =
                          IF f.raised = "" /\ e.raised = ""
                          THEN calculate_brightness(hex_to_rgb(f.entry.hex)) ELSE 0
                    /\ lipstick_color' = <<>>
                    /\ lipstick_brightness' = 0
               ELSE /\ pc' = "l222"
                    /\ closest_foundation' = f.entry
                    /\ closest_eyeshadow' = e.entry
                    /\ foundation_brightness' =
                          calculate_brightness(hex_to_rgb(f.entry.hex))
                    /\ lipstick_color' = hex_to_rgb(l.entry.hex)
                    /\ lipstick_brightness' =
                          calculate_brightness(hex_to_rgb(l.entry.hex))
    /\ UNCHANGED color_scheme
    /\ UNCHANGED notMatcher

\* line 222, the test holds: the body is entered
while_enter ==
    /\ pc = "l222"
    /\ while_condition(lipstick_brightness, foundation_brightness)
    /\ pc' = "l223"
    /\ UNCHANGED <<color_scheme, average_skin_color, average_lip_color,
                   closest_foundation, closest_eyeshadow, foundation_brightness,
                   lipstick_color, lipstick_brightness, returned, raised>>
    /\ UNCHANGED notMatcher

\* lines 223-224, the body of the loop
while_body ==
    /\ pc = "l223"
    /\ lipstick_color' = darken_color(lipstick_color)
    /\ lipstick_brightness' = calculate_brightness(darken_color(lipstick_color))
    /\ pc' = "l222"
    /\ UNCHANGED <<color_scheme, average_skin_color, average_lip_color,
                   closest_foundation, closest_eyeshadow, foundation_brightness,
                   returned, raised>>
    /\ UNCHANGED notMatcher

\* line 222, the test fails, and line 226
return_colors ==
    /\ pc = "l222"
    /\ ~while_condition(lipstick_brightness, foundation_brightness)
    /\ returned' = <<hex_to_rgb(closest_foundation.hex),
                     hex_to_rgb(closest_eyeshadow.hex), lipstick_color>>
    /\ pc' = "returned"
    /\ UNCHANGED <<color_scheme, average_skin_color, average_lip_color,
                   closest_foundation, closest_eyeshadow, foundation_brightness,
                   lipstick_color, lipstick_brightness, raised>>
    /\ UNCHANGED notMatcher

NextMatcher ==
    \/ load_color_scheme
    \/ recommend_complementary_colors
    \/ while_enter
    \/ while_body
    \/ return_colors

Init ==
    /\ InitMatcherIdle /\ InitExtractorIdle /\ InitCompositorIdle /\ InitBuilderIdle
    /\ InitHexIdle /\ InitDarkenIdle /\ InitFilterIdle

SpecMatcher == Init /\ [][NextMatcher]_vars

\* a running call keeps running: each step of the loop and the return are
\* taken when they can be
SpecMatcherFair ==
    /\ SpecMatcher
    /\ WF_vars(while_enter)
    /\ WF_vars(while_body)
    /\ WF_vars(return_colors)

(***************************************************************************)
(* Claims about the palette matcher.                                       *)
(***************************************************************************)
Rgb(entry) == hex_to_rgb(entry.hex)

AnyCategoryEmpty ==
    \/ Len(color_scheme.foundation_colors) = 0
    \/ Len(color_scheme.eyeshadow_colors) = 0
    \/ Len(color_scheme.lipstick_colors) = 0

\* i is the first position of colors whose distance to target is the least
IsFirstNearest(colors, i, target) ==
    /\ i \in 1..Len(colors)
    /\ \A j \in 1..Len(colors) :
          calculate_color_distance(Rgb(colors[i]), target)
             <= calculate_color_distance(Rgb(colors[j]), target)
    /\ \A j \in 1..(i - 1) :
          calculate_color_distance(Rgb(colors[i]), target)
             < calculate_color_distance(Rgb(colors[j]), target)

\* C1: whenever recommend_complementary_colors returns (foundation,
\* eyeshadow, lipstick), the brightness of the lipstick is strictly less
\* than the brightness of the foundation, or both colours are (0, 0, 0).
C1_LipstickDarkerThanFoundation ==
    pc = "returned" =>
        \/ calculate_brightness(returned[3]) < calculate_brightness(returned[1])
        \/ (returned[3] = <<0, 0, 0>> /\ returned[1] = <<0, 0, 0>>)

\* a call has returned a lipstick that the loop darkened: it is no colour of
\* the palette's lipstick list
C1_Witness ==
    /\ pc = "returned"
    /\ \A i \in 1..Len(color_scheme.lipstick_colors) :
          Rgb(color_scheme.lipstick_colors[i]) # returned[3]
    /\ calculate_brightness(returned[3]) < calculate_brightness(returned[1])

\* C2: the darken-until-darker loop always terminates, also when the matched
\* foundation is (0, 0, 0): a call that has reached the loop eventually
\* leaves it.
C2_LoopTerminates == (pc = "l222") ~> (pc = "returned")

\* C9: when any of the three palette categories is empty, a call of
\* recommend_complementary_colors ends in an error and returns no swatches.
C9_EmptyCategoryIsAnError ==
    (pc \notin {"start", "ready"} /\ AnyCategoryEmpty) =>
        (pc = "raised" /\ raised # "" /\ returned = <<>>)

\* a call has raised although the foundation list, searched first, is not
\* empty
C9_Witness ==
    /\ pc = "raised"
    /\ Len(color_scheme.foundation_colors) > 0
    /\ Len(color_scheme.eyeshadow_colors) > 0
    /\ Len(color_scheme.lipstick_colors) = 0

\* C10: the returned foundation is the first entry of the foundation list at
\* minimal Euclidean distance to skin_color, the returned eyeshadow is the
\* first entry of the eyeshadow list at minimal distance to skin_color, and
\* both carry the channel values of their palette entries.
C10_FirstNearestFoundationAndEyeshadow ==
    pc = "returned" =>
        /\ \E i \in 1..Len(color_scheme.foundation_colors) :
              /\ IsFirstNearest(color_scheme.foundation_colors, i, average_skin_color)
              /\ returned[1] = Rgb(color_scheme.foundation_colors[i])
        /\ \E i \in 1..Len(color_scheme.eyeshadow_colors) :
              /\ IsFirstNearest(color_scheme.eyeshadow_colors, i, average_skin_color)
              /\ returned[2] = Rgb(color_scheme.eyeshadow_colors[i])

\* a call has returned where two different foundations and two different
\* eyeshadows are equally near the skin colour
C10_Witness ==
    /\ pc = "returned"
    /\ Len(color_scheme.foundation_colors) = 2
    /\ Len(color_scheme.eyeshadow_colors) = 2
    /\ Rgb(color_scheme.foundation_colors[1]) # Rgb(color_scheme.foundation_colors[2])
    /\ Rgb(color_scheme.eyeshadow_colors[1]) # Rgb(color_scheme.eyeshadow_colors[2])
    /\ calculate_color_distance(Rgb(color_scheme.foundation_colors[1]), average_skin_color)
         = calculate_color_distance(Rgb(color_scheme.foundation_colors[2]), average_skin_color)
    /\ calculate_color_distance(Rgb(color_scheme.eyeshadow_colors[1]), average_skin_color)
         = calculate_color_distance(Rgb(color_scheme.eyeshadow_colors[2]), average_skin_color)

\* a palette entry hex_to_rgb raises on
HasMalformedHex(scheme) ==
    \E cat \in DOMAIN scheme : \E i \in 1..Len(scheme[cat]) :
        hex_to_rgb_raises(scheme[cat][i].hex)

\* C13: a malformed hex string of the palette is reported by
\* load_color_scheme, before any request is served: no call of
\* recommend_complementary_colors on a loaded palette fails because of a
\* malformed hex string.
C13_NoCallFailsOnMalformedHex ==
    pc \notin {"start", "ready"} =>
        /\ ~HasMalformedHex(color_scheme)
        /\ raised # "ValueError: invalid literal for int() with base 16"

(***************************************************************************)
(* Colour extractor.  A frame is a function from the pixel indices         *)
(* 1..height*width to BGR pixels, a mask a function from the same indices  *)
(* to uint8 values; neither function reads the position of a pixel.        *)
(***************************************************************************)
MaxOf(f) == CHOOSE v \in {f[p] : p \in DOMAIN f} : \A q \in DOMAIN f : f[q] <= v

\* lines 157-158 and 182-183: a 0/1 mask becomes a 0/255 mask (the masks are
\* single-channel uint8 arrays, as add_reverse_mask_and_lips builds them, so
\* lines 153-156 leave them as they are)
normalize_mask(mask) ==
    IF MaxOf(mask) = 1 THEN [p \in DOMAIN mask |-> mask[p] * 255] ELSE mask

\* cv2.bitwise_and(frame, frame, mask = mask): the pixel where the mask is not
\* zero, zeros elsewhere
bitwise_and(frm, mask) ==
    [p \in DOMAIN frm |-> IF mask[p] # 0 THEN frm[p] ELSE <<0, 0, 0>>]

\* (masked > [0, 0, 0]).all(axis = 2): the pixels all of whose channels are
\* positive, lines 164 and 189
non_black_pixels(masked) ==
    {p \in DOMAIN masked : masked[p][1] > 0 /\ masked[p][2] > 0 /\ masked[p][3] > 0}

RECURSIVE SumChannel(_, _, _)
SumChannel(masked, S, c) ==
    IF S = {} THEN 0
    ELSE LET p == CHOOSE q \in S : TRUE
         IN  masked[p][c] + SumChannel(masked, S \ {p}, c)

\* int(np.mean(pixels, axis = 0)[c]): the mean of non-negative values,
\* truncated
mean_channel(masked, S, c) == SumChannel(masked, S, c) \div Cardinality(S)

\* lines 169 and 194: (int(mean[2]), int(mean[1]), int(mean[0]))
mean_color_bgr(masked, S) ==
    <<mean_channel(masked, S, 1), mean_channel(masked, S, 2), mean_channel(masked, S, 3)>>

mean_color_rgb(masked, S) ==
    <<mean_channel(masked, S, 3), mean_channel(masked, S, 2), mean_channel(masked, S, 1)>>

compute_mean_skin_color(frm, mask) ==
    LET masked == bitwise_and(frm, normalize_mask(mask))
        pixels == non_black_pixels(masked)
    IN  IF pixels = {}
        THEN [line |-> 166, color |-> <<200, 180, 160>>]
        ELSE [line |-> 169, color |-> mean_color_rgb(masked, pixels)]

compute_mean_lip_color_pasted(frm, mask) ==
    LET masked == bitwise_and(frm, normalize_mask(mask))
        pixels == non_black_pixels(masked)
    IN  IF pixels = {}
        THEN [line |-> 191, color |-> <<200, 180, 160>>]
        ELSE [line |-> 194, color |-> mean_color_rgb(masked, pixels)]

compute_mean_lip_color(frm, mask) ==
    LET masked == bitwise_and(frm, normalize_mask(mask))
        pixels == non_black_pixels(masked)
    IN  IF pixels = {}
        THEN [line |-> 191, color |-> <<150, 50, 70>>]
        ELSE [line |-> 194, color |-> mean_color_rgb(masked, pixels)]

\* ---- inputs of the extractor ----
FramePixelValues ==
    { <<0, 0, 0>>, <<255, 0, 0>>, <<10, 20, 40>>, <<11, 22, 44>> }     \* BGR

Frames == [1..FramePixels -> FramePixelValues]

RegionMasks == [1..FramePixels -> {0, 1, 255}]

skin_color_call ==
    /\ ex_pc = "idle"
    /\ \E frm \in Frames, mask \in RegionMasks :
        LET r == compute_mean_skin_color(frm, mask)
        IN  /\ frame' = frm
            /\ region_mask' = mask
            /\ extracted' = [fn |-> "compute_mean_skin_color",
                             line |-> r.line, color |-> r.color]
    /\ ex_pc' = "done"
    /\ UNCHANGED notExtractor

lip_color_call ==
    /\ ex_pc = "idle"
    /\ \E frm \in Frames, mask \in RegionMasks :
        LET r == compute_mean_lip_color(frm, mask)
        IN  /\ frame' = frm
            /\ region_mask' = mask
            /\ extracted' = [fn |-> "compute_mean_lip_color",
                             line |-> r.line, color |-> r.color]
    /\ ex_pc' = "done"
    /\ UNCHANGED notExtractor

NextExtractor ==
    \/ skin_color_call
    \/ lip_color_call

SpecExtractor == Init /\ [][NextExtractor]_vars

(***************************************************************************)
(* Claims about the colour extractor.                                      *)
(***************************************************************************)
FallbackLines == {166, 191}

\* the pixels under the mask that the claims keep: not every channel is zero
MaskedNotAllZero ==
    {p \in DOMAIN frame : region_mask[p] # 0 /\ frame[p] # <<0, 0, 0>>}

\* the pixels the code keeps
Retained ==
    {p \in DOMAIN frame :
        region_mask[p] # 0 /\ frame[p][1] > 0 /\ frame[p][2] > 0 /\ frame[p][3] > 0}

RECURSIVE SumOver(_, _)
SumOver(S, c) ==
    IF S = {} THEN 0
    ELSE LET p == CHOOSE q \in S : TRUE IN frame[p][c] + SumOver(S \ {p}, c)

\* v is an integer nearest to n / d (either neighbour at a tie)
IsNearest(v, n, d) ==
    /\ 2 * (v * d - n) <= d
    /\ 2 * (n - v * d) <= d

\* C5: when the masked region holds a pixel with a nonzero channel, neither
\* extractor takes the fallback branch: only masked pixels whose every
\* channel is zero are left out of the mean.
C5_NonzeroMaskedPixelAvoidsFallback ==
    (ex_pc = "done" /\ MaskedNotAllZero # {}) => extracted.line \notin FallbackLines

\* C6 as claimed: with a non-empty retained set the result is, per channel,
\* the mean over the retained pixels rounded to the nearest integer, in RGB
\* order for the BGR frame.
C6_MeanRoundedToNearest ==
    (ex_pc = "done" /\ extracted.line \notin FallbackLines) =>
        \A k \in 1..3 :
            IsNearest(extracted.color[k], SumOver(Retained, 4 - k), Cardinality(Retained))

\* C6 as amended: the result is, per channel, the mean over the retained
\* pixels truncated to an integer, in RGB order for the BGR frame.
C6_MeanTruncated ==
    (ex_pc = "done" /\ extracted.line \notin FallbackLines) =>
        /\ Retained # {}
        /\ \A k \in 1..3 :
              extracted.color[k] = SumOver(Retained, 4 - k) \div Cardinality(Retained)

\* a mean was returned whose green channel is no nearest integer of the true
\* mean, and whose red and blue channels differ
C6_Witness ==
    /\ ex_pc = "done"
    /\ extracted.line \notin FallbackLines
    /\ ~IsNearest(extracted.color[2], SumOver(Retained, 2), Cardinality(Retained))
    /\ extracted.color[1] # extracted.color[3]

\* C7: when the mask is all zero, or every masked pixel is all zero,
\* compute_mean_skin_color returns (200, 180, 160) and compute_mean_lip_color
\* returns (150, 50, 70).
C7_FallbackColors ==
    (ex_pc = "done" /\ MaskedNotAllZero = {}) =>
        /\ extracted.line \in FallbackLines
        /\ extracted.fn = "compute_mean_skin_color" => extracted.color = <<200, 180, 160>>
        /\ extracted.fn = "compute_mean_lip_color" => extracted.color = <<150, 50, 70>>

\* the lip extractor was called on an all-black frame with an all-nonzero mask
C7_Witness ==
    /\ ex_pc = "done"
    /\ extracted.fn = "compute_mean_lip_color"
    /\ \A p \in DOMAIN frame : region_mask[p] # 0 /\ frame[p] = <<0, 0, 0>>
    /\ extracted.color = <<150, 50, 70>>

(***************************************************************************)
(* Compositor.  An image is a function from the pixel indices to BGR       *)
(* pixels, a mask a function from the same indices to uint8 values.  An    *)
(* opacity is a fraction num / den whose denominator is a power of two, so *)
(* that the float arithmetic of cv2.addWeighted is exact on it.            *)
(***************************************************************************)
\* int(opacity * 255), line 262: int() truncates towards zero
alpha_channel(opacity) ==
    LET n == opacity.num * 255
    IN  IF n >= 0 THEN n \div opacity.den ELSE -((-n) \div opacity.den)

\* a value written into an array of dtype uint8 that takes it without an
\* error is kept modulo 256
uint8_wrap(v) == v % 256

\* makeup_color + (int(opacity * 255),), line 262: the channels of
\* makeup_color in the order they were given, then the alpha value
makeup_bgra(makeup_color, opacity) ==
    <<makeup_color[1], makeup_color[2], makeup_color[3], alpha_channel(opacity)>>

\* lines 265 and 268: zeros, and makeup_bgra where the mask is not zero
makeup_layer(mask, makeup_color, opacity) ==
    [p \in DOMAIN mask |->
        IF mask[p] # 0
        THEN [c \in 1..4 |-> uint8_wrap(makeup_bgra(makeup_color, opacity)[c])]
        ELSE <<0, 0, 0, 0>>]

\* cv2.cvtColor(image, cv2.COLOR_BGR2BGRA), line 271: alpha is 255
bgr2bgra(img) == [p \in DOMAIN img |-> <<img[p][1], img[p][2], img[p][3], 255>>]

\* cv2.cvtColor(image_bgra, cv2.COLOR_BGRA2BGR), line 277
bgra2bgr(img) == [p \in DOMAIN img |-> <<img[p][1], img[p][2], img[p][3]>>]

\* cvRound(n / d) for d > 0: to the nearest integer, a tie to the even one
\* (n \div d is the floor of n / d and n % d is not negative, also for n < 0)
cvRound(n, d) ==
    LET q == n \div d
        r == n % d
    IN  IF 2 * r < d THEN q
        ELSE IF 2 * r > d THEN q + 1
        ELSE IF q % 2 = 0 THEN q ELSE q + 1

\* saturate_cast<uchar>
saturate_uint8(v) == IF v > 255 THEN 255 ELSE IF v < 0 THEN 0 ELSE v

\* the two weights exchanged: cv2.addWeighted(src1, opacity, src2, 1 - opacity, 0)
addWeighted_swapped(src1, src2, opacity) ==
    [p \in DOMAIN src1 |->
        [c \in 1..4 |->
            saturate_uint8(cvRound(src1[p][c] * opacity.num
                                     + src2[p][c] * (opacity.den - opacity.num),
                                   opacity.den))]]

\* cv2.addWeighted(src1, 1 - opacity, src2, opacity, 0), line 274: on every
\* pixel and every channel, saturate(round(src1 * (1 - opacity) + src2 * opacity))
addWeighted(src1, src2, opacity) ==
    [p \in DOMAIN src1 |->
        [c \in 1..4 |->
            saturate_uint8(cvRound(src1[p][c] * (opacity.den - opacity.num)
                                     + src2[p][c] * opacity.num, opacity.den))]]

apply_makeup_directly(img, mask, makeup_color, opacity) ==
    bgra2bgr(addWeighted(bgr2bgra(img),
                         makeup_layer(mask, makeup_color, opacity), opacity))

\* ---- inputs of the compositor ----
ImagePixelValues == { <<0, 0, 0>>, <<10, 20, 40>>, <<255, 255, 255>> }     \* BGR

Images == [1..ImagePixels -> ImagePixelValues]

LayerMasks == [1..ImagePixels -> {0, 255}]

\* RGB, as recommend_complementary_colors returns them
MakeupColors == { <<100, 110, 100>>, <<150, 50, 70>> }

Opacities ==
    { [num |-> 0, den |-> 1], [num |-> 1, den |-> 4],
      [num |-> 1, den |-> 2], [num |-> 1, den |-> 1] }

\* workflow steps 1 and 2: the image is read and the two masks are built
read_image ==
    /\ co_pc = "start"
    /\ \E img \in Images, fm \in LayerMasks, lm \in LayerMasks :
        /\ image' = img
        /\ face_mask' = fm
        /\ lips_mask' = lm
    /\ co_pc' = "l101"
    /\ calls' = <<>>
    /\ UNCHANGED notCompositor

\* workflow step 5, line 101:
\* image = apply_makeup_directly(image, face_mask, fnd, opacity = ...)
apply_foundation ==
    /\ co_pc = "l101"
    /\ \E fnd \in MakeupColors, opacity \in Opacities :
        LET out == apply_makeup_directly(image, face_mask, fnd, opacity)
        IN  /\ image' = out
            /\ calls' = Append(calls, [image |-> image, mask |-> face_mask,
                                       makeup_color |-> fnd, opacity |-> opacity,
                                       result |-> out])
    /\ co_pc' = "l102"
    /\ UNCHANGED <<face_mask, lips_mask>>
    /\ UNCHANGED notCompositor

\* workflow step 5, line 102:
\* image = apply_makeup_directly(image, lips_mask, lip, opacity = ...)
apply_lipstick ==
    /\ co_pc = "l102"
    /\ \E lip \in MakeupColors, opacity \in Opacities :
        LET out == apply_makeup_directly(image, lips_mask, lip, opacity)
        IN  /\ image' = out
            /\ calls' = Append(calls, [image |-> image, mask |-> lips_mask,
                                       makeup_color |-> lip, opacity |-> opacity,
                                       result |-> out])
    /\ co_pc' = "done"
    /\ UNCHANGED <<face_mask, lips_mask>>
    /\ UNCHANGED notCompositor

NextCompositor ==
    \/ read_image
    \/ apply_foundation
    \/ apply_lipstick

SpecCompositor == Init /\ [][NextCompositor]_vars

\* ---- a call with an opacity the caller did not keep inside [0, 1] ----
OutOfRangeOpacities ==
    { [num |-> -1, den |-> 4], [num |-> 257, den |-> 256], [num |-> 5, den |-> 4] }

InUnitInterval(opacity) == 0 <= opacity.num /\ opacity.num <= opacity.den

\* apply_makeup_directly(image, face_mask, fnd, opacity) with any opacity.
\* Nothing in lines 256-277 tests the opacity.  When int(opacity * 255) is
\* not in 0..255, the assignment of line 268 either raises OverflowError or
\* keeps the value modulo 256, depending on the NumPy the program runs with:
\* both outcomes are taken.
apply_makeup_directly_call ==
    /\ co_pc = "l101"
    /\ \E fnd \in MakeupColors, opacity \in Opacities \cup OutOfRangeOpacities,
          overflow_raises \in BOOLEAN :
        IF alpha_channel(opacity) \notin 0..255 /\ overflow_raises
        THEN /\ calls' = Append(calls, [image |-> image, mask |-> face_mask,
                                        makeup_color |-> fnd, opacity |-> opacity,
                                        result |-> <<>>, raised |-> "OverflowError"])
             /\ co_pc' = "raised"
             /\ image' = image
        ELSE LET out == apply_makeup_directly(image, face_mask, fnd, opacity)
             IN  /\ calls' = Append(calls, [image |-> image, mask |-> face_mask,
                                            makeup_color |-> fnd, opacity |-> opacity,
                                            result |-> out, raised |-> ""])
                 /\ co_pc' = "l102"
                 /\ image' = out
    /\ UNCHANGED <<face_mask, lips_mask>>
    /\ UNCHANGED notCompositor

NextCompositorAnyOpacity ==
    \/ read_image
    \/ apply_makeup_directly_call

SpecCompositorAnyOpacity == Init /\ [][NextCompositorAnyOpacity]_vars

(***************************************************************************)
(* Claims about the compositor.                                            *)
(***************************************************************************)
\* an RGB colour in the channel order of the image
ToBGR(color) == <<color[3], color[2], color[1]>>

\* C3: every pixel where the mask is zero has in the output of
\* apply_makeup_directly the channel values it has in the input, whatever the
\* opacity; after the two chained calls every pixel outside both masks has
\* the values of the image first given.
C3_UnmaskedPixelsUnchanged ==
    /\ \A k \in 1..Len(calls) : \A p \in DOMAIN calls[k].image :
          calls[k].mask[p] = 0 => calls[k].result[p] = calls[k].image[p]
    /\ co_pc = "done" =>
          \A p \in DOMAIN image :
              (face_mask[p] = 0 /\ lips_mask[p] = 0) => image[p] = calls[1].image[p]

\* C4: every pixel where the mask is not zero is, per channel,
\* round(image * (1 - opacity) + color * opacity) with the RGB colour of the
\* matcher converted to the BGR order of the image; with opacity 1 it is
\* exactly that converted colour.
C4_MaskedPixelsBlendConvertedColor ==
    \A k \in 1..Len(calls) : \A p \in DOMAIN calls[k].image :
        calls[k].mask[p] # 0 =>
            /\ \A c \in 1..3 :
                  IsNearest(calls[k].result[p][c],
                            calls[k].image[p][c] * (calls[k].opacity.den - calls[k].opacity.num)
                               + ToBGR(calls[k].makeup_color)[c] * calls[k].opacity.num,
                            calls[k].opacity.den)
            /\ calls[k].opacity.num = calls[k].opacity.den =>
                  calls[k].result[p] = ToBGR(calls[k].makeup_color)

\* C11: with opacity 0 the output of apply_makeup_directly equals its input
\* image on every pixel, inside the mask and outside it, whatever the mask
\* and the colour.
C11_ZeroOpacityIsIdentity ==
    \A k \in 1..Len(calls) :
        calls[k].opacity.num = 0 =>
            \A p \in DOMAIN calls[k].image : calls[k].result[p] = calls[k].image[p]

\* a call with opacity 0 on a pixel inside the mask whose colour differs from
\* the makeup colour in every channel
C11_Witness ==
    \E k \in 1..Len(calls) :
        /\ calls[k].opacity.num = 0
        /\ \E p \in DOMAIN calls[k].image :
              /\ calls[k].mask[p] # 0
              /\ \A c \in 1..3 : calls[k].image[p][c] # ToBGR(calls[k].makeup_color)[c]
              /\ \A c \in 1..3 : calls[k].image[p][c] # calls[k].makeup_color[c]

Between(v, a, b) == (a <= v /\ v <= b) \/ (b <= v /\ v <= a)

\* C14: a call of apply_makeup_directly with an opacity below 0 or above 1 is
\* rejected, or blends with an opacity of [0, 1]: every channel of every
\* output pixel is then a value that round(image * (1 - o) + layer * o)
\* takes for some o in [0, 1], i.e. a value from the image's channel to the
\* layer's (the makeup colour inside the mask, 0 outside it).
C14_OutOfRangeOpacityRejectedOrClamped ==
    \A k \in 1..Len(calls) :
        (~InUnitInterval(calls[k].opacity) /\ calls[k].raised = "") =>
            \A p \in DOMAIN calls[k].image : \A c \in 1..3 :
                Between(calls[k].result[p][c], calls[k].image[p][c],
                        IF calls[k].mask[p] # 0 THEN calls[k].makeup_color[c] ELSE 0)

(***************************************************************************)
(* Mask builder.  A mask of shape (height, width) is a function from the   *)
(* cells <<x, y>>, 0 <= x < width, 0 <= y < height, to uint8 values.       *)
(***************************************************************************)
\* lines 234-248
face_points ==
    [ BLUSH_LEFT |-> <<50>>,
      BLUSH_RIGHT |-> <<280>>,
      LEFT_EYE |-> <<33, 246, 161, 160, 159, 158, 157, 173, 133, 155, 154, 153,
                     145, 144, 163, 7, 33>>,
      RIGHT_EYE |-> <<362, 298, 384, 385, 386, 387, 388, 466, 263, 249, 390, 373,
                      374, 380, 381, 382, 362>>,
      EYELINER_LEFT |-> <<243, 112, 26, 22, 23, 24, 110, 25, 226, 130, 33, 7, 163,
                          144, 145, 153, 154, 155, 133, 243>>,
      EYELINER_RIGHT |-> <<463, 362, 382, 381, 380, 374, 373, 390, 249, 263, 359,
                           446, 255, 339, 254, 253, 252, 256, 341, 463>>,
      EYESHADOW_LEFT |-> <<226, 247, 30, 29, 27, 28, 56, 190, 243, 173, 157, 158,
                           159, 160, 161, 246, 33, 130, 226>>,
      EYESHADOW_RIGHT |-> <<463, 414, 286, 258, 257, 259, 260, 467, 446, 359, 263,
                            466, 388, 387, 386, 385, 384, 398, 362, 463>>,
      FACE |-> <<152, 148, 176, 149, 150, 136, 172, 58, 132, 93, 234, 127, 162, 21,
                 54, 103, 67, 109, 10, 338, 297, 332, 284, 251, 389, 454, 323, 401,
                 361, 435, 288, 397, 365, 379, 378, 400, 377, 152>>,
      LIP_UPPER |-> <<61, 185, 40, 39, 37, 0, 267, 269, 270, 409, 291, 308, 415,
                      310, 312, 13, 82, 81, 80, 191, 78>>,
      LIP_LOWER |-> <<61, 146, 91, 181, 84, 17, 314, 405, 321, 375, 291, 308, 324,
                      402, 317, 14, 87, 178, 88, 95, 78, 61>>,
      EYEBROW_LEFT |-> <<55, 107, 66, 105, 63, 70, 46, 53, 52, 65, 55>>,
      EYEBROW_RIGHT |-> <<285, 336, 296, 334, 293, 300, 276, 283, 295, 285>> ]

\* lines 251-253
features_to_remove == {"LEFT_EYE", "RIGHT_EYE"}

Cells(width, height) == (0..(width - 1)) \X (0..(height - 1))

\* np.zeros(mask.shape[:2], dtype = np.uint8), lines 286-287
zeros(width, height) == [cell \in Cells(width, height) |-> 0]

\* [idx_to_coordinates[idx] for idx in feature_points if idx in
\* idx_to_coordinates], line 292 and lines 297-300; an index without an entry
\* stands for the point (0, 0) in resolve_default
RECURSIVE resolve_default(_, _)
resolve_default(feature_points, coords) ==
    IF feature_points = <<>> THEN <<>>
    ELSE (IF Head(feature_points) \in DOMAIN coords
          THEN <<coords[Head(feature_points)]>> ELSE << <<0, 0>> >>)
         \o resolve_default(Tail(feature_points), coords)

RECURSIVE resolve(_, _)
resolve(feature_points, coords) ==
    IF feature_points = <<>> THEN <<>>
    ELSE (IF Head(feature_points) \in DOMAIN coords
          THEN <<coords[Head(feature_points)]>> ELSE <<>>)
         \o resolve(Tail(feature_points), coords)

\* cell lies on the closed segment from a to b
OnSegment(cell, a, b) ==
    /\ (b[1] - a[1]) * (cell[2] - a[2]) = (b[2] - a[2]) * (cell[1] - a[1])
    /\ (cell[1] - a[1]) * (cell[1] - b[1]) <= 0
    /\ (cell[2] - a[2]) * (cell[2] - b[2]) <= 0

\* the edge from a to b crosses the horizontal ray that leaves cell to the right
CrossesRay(cell, a, b) ==
    /\ (a[2] > cell[2]) # (b[2] > cell[2])
    /\ IF b[2] > a[2]
       THEN (cell[1] - a[1]) * (b[2] - a[2]) < (cell[2] - a[2]) * (b[1] - a[1])
       ELSE (cell[1] - a[1]) * (b[2] - a[2]) > (cell[2] - a[2]) * (b[1] - a[1])

\* cv2.fillPoly(mask, [np.array(points)], 255), lines 294 and 302: the cells of
\* the closed polygon through points, in their order, become 255: the cells
\* on an edge and the cells inside (an odd number of edges crossed)
fillPoly(mask, points) ==
    LET n == Len(points)
        nxt(i) == IF i = n THEN 1 ELSE i + 1
        inside(cell) ==
            \/ \E i \in 1..n : OnSegment(cell, points[i], points[nxt(i)])
            \/ Cardinality({i \in 1..n :
                              CrossesRay(cell, points[i], points[nxt(i)])}) % 2 = 1
    IN  [cell \in DOMAIN mask |-> IF inside(cell) THEN 255 ELSE mask[cell]]

\* lines 290-294: the loop over face_points
RECURSIVE fill_features(_, _, _)
fill_features(mask, features, coords) ==
    IF features = {} THEN mask
    ELSE LET feature == CHOOSE f \in features : TRUE
             points == resolve(face_points[feature], coords)
             filled == IF feature \notin features_to_remove /\ points # <<>>
                       THEN fillPoly(mask, points) ELSE mask
         IN  fill_features(filled, features \ {feature}, coords)

add_reverse_mask_and_lips(width, height, coords, lips) ==
    LET lips_points == resolve(lips, coords)
    IN  [face_mask |-> fill_features(zeros(width, height), DOMAIN face_points, coords),
         lips_mask |-> IF lips_points # <<>>
                       THEN fillPoly(zeros(width, height), lips_points)
                       ELSE zeros(width, height)]

\* ---- inputs of the mask builder ----
\* the landmarks a map of the model may hold, each at one place of the image
LandmarkPlaces ==
    [i \in {10, 234, 152, 454, 33, 159, 133, 61, 291, 17, 50} |->
        CASE i = 10  -> <<2, 0>>     \* FACE, top
          [] i = 234 -> <<0, 2>>     \* FACE, left
          [] i = 152 -> <<2, 4>>     \* FACE, chin
          [] i = 454 -> <<4, 2>>     \* FACE, right
          [] i = 33  -> <<1, 1>>     \* LEFT_EYE, EYELINER_LEFT, EYESHADOW_LEFT
          [] i = 159 -> <<2, 1>>     \* LEFT_EYE, EYESHADOW_LEFT
          [] i = 133 -> <<2, 2>>     \* LEFT_EYE, EYELINER_LEFT
          [] i = 61  -> <<1, 3>>     \* LIP_UPPER, LIP_LOWER
          [] i = 291 -> <<3, 3>>     \* LIP_UPPER, LIP_LOWER
          [] i = 17  -> <<2, 4>>     \* LIP_LOWER
          [] i = 50  -> <<3, 2>> ]   \* BLUSH_LEFT

LandmarkMaps ==
    { [i \in S |-> LandmarkPlaces[i]] : S \in SUBSET (DOMAIN LandmarkPlaces) }

LipConnectionLists == { <<>>, face_points.LIP_UPPER, face_points.LIP_LOWER }

build_masks_call ==
    /\ mb_pc = "idle"
    /\ \E coords \in LandmarkMaps, lips \in LipConnectionLists :
        /\ idx_to_coordinates' = coords
        /\ lip_connections' = lips
        /\ built' = add_reverse_mask_and_lips(MaskWidth, MaskHeight, coords, lips)
    /\ mb_pc' = "done"
    /\ UNCHANGED notBuilder

NextBuilder == build_masks_call

SpecBuilder == Init /\ [][NextBuilder]_vars

(***************************************************************************)
(* Claims about the mask builder.                                          *)
(***************************************************************************)
SeqRange(q) == {q[i] : i \in 1..Len(q)}

\* cell lies in the bounding box of the landmarks of indices that have an entry
InBoxOf(cell, indices) ==
    LET S == SeqRange(indices) \cap DOMAIN idx_to_coordinates
    IN  /\ S # {}
        /\ \E i \in S : idx_to_coordinates[i][1] <= cell[1]
        /\ \E i \in S : idx_to_coordinates[i][1] >= cell[1]
        /\ \E i \in S : idx_to_coordinates[i][2] <= cell[2]
        /\ \E i \in S : idx_to_coordinates[i][2] >= cell[2]

\* C8: called with an empty landmark map, add_reverse_mask_and_lips returns
\* two masks of the height and width asked for whose every cell is zero,
\* whatever the lip index list; and a region none of whose indices has an
\* entry contributes nothing: a nonzero cell lies within the landmarks of a
\* region that has entries.
C8_EmptyLandmarksGiveZeroMasks ==
    mb_pc = "done" =>
        /\ DOMAIN built.face_mask = Cells(MaskWidth, MaskHeight)
        /\ DOMAIN built.lips_mask = Cells(MaskWidth, MaskHeight)
        /\ DOMAIN idx_to_coordinates = {} =>
              \A cell \in Cells(MaskWidth, MaskHeight) :
                  built.face_mask[cell] = 0 /\ built.lips_mask[cell] = 0
        /\ \A cell \in Cells(MaskWidth, MaskHeight) :
              /\ built.face_mask[cell] # 0 =>
                    \E f \in DOMAIN face_points \ features_to_remove :
                        InBoxOf(cell, face_points[f])
              /\ built.lips_mask[cell] # 0 => InBoxOf(cell, lip_connections)

\* the builder was called with an empty landmark map and a lip index list
\* that is not empty
C8_Witness ==
    /\ mb_pc = "done"
    /\ DOMAIN idx_to_coordinates = {}
    /\ lip_connections # <<>>
    /\ \A cell \in Cells(MaskWidth, MaskHeight) :
          built.face_mask[cell] = 0 /\ built.lips_mask[cell] = 0

\* the cells of the polygon through the landmarks of a region that the map holds
PolygonCells(feature) ==
    LET points == resolve(face_points[feature], idx_to_coordinates)
    IN  IF points = <<>> THEN {}
        ELSE { cell \in Cells(MaskWidth, MaskHeight) :
                 fillPoly(zeros(MaskWidth, MaskHeight), points)[cell] # 0 }

\* C17: the face mask add_reverse_mask_and_lips returns has the eyes
\* removed: every cell of the LEFT_EYE polygon and of the RIGHT_EYE polygon is
\* zero in it, whatever the other regions filled into the mask.
C17_EyesRemovedFromFaceMask ==
    mb_pc = "done" =>
        \A eye \in features_to_remove : \A cell \in PolygonCells(eye) :
            built.face_mask[cell] = 0

(***************************************************************************)
(* HEX round trip: hex_to_rgb, then rgb_to_hex on the tuple it returned.   *)
(***************************************************************************)
\* digits the strings given to hex_to_rgb are made of
HexDigitSamples == {"0", "9", "a", "F"}

\* six hex digits, with or without the "#" prefix
WellFormedHex ==
    { prefix \o digits : prefix \in {<<>>, <<"#">>},
                         digits \in [1..6 -> HexDigitSamples] }

hex_to_rgb_call ==
    /\ hx_pc = "idle"
    /\ \E s \in WellFormedHex \cup MalformedHex :
        /\ hx_hex_color' = s
        /\ IF hex_to_rgb_raises(s)
           THEN hx_pc' = "raised" /\ hx_rgb' = <<>>
           ELSE hx_pc' = "parsed" /\ hx_rgb' = hex_to_rgb(s)
    /\ UNCHANGED hx_hex_string
    /\ UNCHANGED notHex

rgb_to_hex_call ==
    /\ hx_pc = "parsed"
    /\ hx_hex_string' = rgb_to_hex(hx_rgb)
    /\ hx_pc' = "formatted"
    /\ UNCHANGED <<hx_hex_color, hx_rgb>>
    /\ UNCHANGED notHex

NextHex ==
    \/ hex_to_rgb_call
    \/ rgb_to_hex_call

SpecHex == Init /\ [][NextHex]_vars

(***************************************************************************)
(* Claims about the HEX round trip.                                        *)
(***************************************************************************)
\* a character with its letter case folded to lower case
lower_char(ch) == IF IsHexDigit(ch) THEN LowerHex[HexDigitValue(ch) + 1] ELSE ch

lower(s) == [i \in 1..Len(s) |-> lower_char(s[i])]

\* C12: for every well-formed string s of six hex digits, with or without
\* the "#" prefix, in either letter case, rgb_to_hex(hex_to_rgb(s)) is s up to
\* letter case.
C12_RoundTripReproducesString ==
    (hx_pc = "formatted" /\ hx_hex_color \in WellFormedHex) =>
        lower(hx_hex_string) = lower(hx_hex_color)

\* C12 as the code has it: rgb_to_hex(hex_to_rgb(s)) is "#" followed by the
\* six digits of s in lower case, so it is s up to letter case exactly when s
\* has the "#" prefix, and s with "#" put in front when it has none.
C12_RoundTripNormalisesString ==
    (hx_pc = "formatted" /\ hx_hex_color \in WellFormedHex) =>
        /\ hx_hex_string = <<"#">> \o lower(lstrip(hx_hex_color))
        /\ Head(hx_hex_color) = "#" => lower(hx_hex_string) = lower(hx_hex_color)
        /\ Head(hx_hex_color) # "#" => hx_hex_string = <<"#">> \o lower(hx_hex_color)

\* a string without prefix, with an upper-case digit and a channel below 16,
\* has made the round trip
C12_Witness ==
    /\ hx_pc = "formatted"
    /\ hx_hex_color = <<"0", "9", "a", "F", "F", "0">>
    /\ hx_hex_string = <<"#", "0", "9", "a", "f", "f", "0">>

(***************************************************************************)
(* Catalog filter: _filter_and_serialize of recognition_Service.py.  A     *)
(* product table is a sequence of rows; the position of a row is its index *)
(* label.  A text cell is the sequence of its words, a price or a rating   *)
(* the number pd.to_numeric reads.                                         *)
(***************************************************************************)
\* the lower-case form of a word, as case = False compares words
LowerWord ==
    [w \in {"Summer", "summer", "Winter", "WINTER", "Oily", "oily", "Dry"} |->
        CASE w \in {"Summer", "summer"} -> "summer"
          [] w \in {"Winter", "WINTER"} -> "winter"
          [] w \in {"Oily", "oily"} -> "oily"
          [] OTHER -> "dry"]

\* cell.str.contains(rf"\b{re.escape(word)}\b", case = False), lines 193-197:
\* the word is one of the words of the cell, letter case ignored
str_contains(cell, word) ==
    \E i \in 1..Len(cell) : LowerWord[cell[i]] = LowerWord[word]

\* season_mask & skin_mask, lines 196-198: the index labels kept
filter_rows(table, season, skin_type) ==
    { i \in 1..Len(table) : /\ str_contains(table[i].season, season)
                            /\ str_contains(table[i].skin, skin_type) }

\* the order of sort_values(by = [Ratings, Price], ascending = [False, True]),
\* line 206: rows of equal keys keep the order of the table
sorts_before(table, i, j) ==
    \/ table[i].rating > table[j].rating
    \/ table[i].rating = table[j].rating /\ table[i].price < table[j].price
    \/ table[i].rating = table[j].rating /\ table[i].price = table[j].price /\ i < j

\* the index labels of a set of rows in sorted order
sort_values(table, labels) ==
    [r \in 1..Cardinality(labels) |->
        CHOOSE i \in labels :
            Cardinality({ j \in labels : sorts_before(table, j, i) }) = r - 1]

\* DataFrame.head(n): the first n rows, all rows but the last -n when n < 0
head(rows, n) ==
    LET m == IF n >= 0 THEN (IF n < Len(rows) THEN n ELSE Len(rows))
             ELSE (IF Len(rows) + n > 0 THEN Len(rows) + n ELSE 0)
    IN  SubSeq(rows, 1, m)

\* k taken from the unclamped sample_k
sample_size_unclamped(pool_len, k) == k

\* k = min(len(pool), int(sample_k)), line 218
sample_size(pool_len, k) == IF pool_len < k THEN pool_len ELSE k

\* pool.sample(n = k, replace = False): the outcomes of the random draw, k
\* different rows of the pool in any order
sample_outcomes(pool, k) ==
    { [r \in 1..k |-> pool[pick[r]]] :
        pick \in { f \in [1..k -> 1..Len(pool)] :
                     \A a, b \in 1..k : a # b => f[a] # f[b] } }

\* the columns kept (line 212) of the rows named, as to_json(orient =
\* "records") writes them: one record per row, the index label dropped
to_json(table, labels) ==
    [r \in 1..Len(labels) |->
        [name |-> table[labels[r]].name, price |-> table[labels[r]].price,
         rating |-> table[labels[r]].rating]]

\* ---- inputs of the catalog filter ----
ProductRows ==
    { [name |-> "A", season |-> <<"Summer", "Winter">>, skin |-> <<"Oily">>,
       price |-> 10, rating |-> 5],
      [name |-> "B", season |-> <<"summer">>, skin |-> <<"oily", "Dry">>,
       price |-> 20, rating |-> 5],
      [name |-> "C", season |-> <<"Summer">>, skin |-> <<"Oily">>,
       price |-> 10, rating |-> 4],
      [name |-> "D", season |-> <<"Winter">>, skin |-> <<"Oily">>,
       price |-> 5, rating |-> 5],
      [name |-> "E", season |-> <<"Summer">>, skin |-> <<"Dry">>,
       price |-> 5, rating |-> 5] }

ProductTables == SeqsUpTo(ProductRows, MaxRows)

Seasons == {"summer", "WINTER"}
SkinTypes == {"oily"}
PoolSizes == {0, 1, 2, 10}
SampleSizes == {0, 1, 3}

\* _filter_and_serialize(df, season, skin_type, pool_n, sample_k), lines 185-221
filter_and_serialize ==
    /\ fs_pc = "idle"
    /\ \E table \in ProductTables, s \in Seasons, t \in SkinTypes,
          n \in PoolSizes, k \in SampleSizes :
        LET filtered == sort_values(table, filter_rows(table, s, t))
            pool == head(filtered, n)
            size == sample_size(Len(pool), k)
        IN  /\ fs_df' = table
            /\ fs_season' = s
            /\ fs_skin_type' = t
            /\ fs_pool_n' = n
            /\ fs_sample_k' = k
            /\ IF filtered = <<>> \/ pool = <<>>
               THEN fs_response' = [raised |-> "", sampled |-> <<>>, json |-> <<>>]
               ELSE IF size < 0
               THEN fs_response' =
                        [raised |-> "ValueError: A negative number of rows requested",
                         sampled |-> <<>>, json |-> <<>>]
               ELSE IF size > Len(pool)
               THEN fs_response' =
                        [raised |-> "ValueError: Cannot take a larger sample than population",
                         sampled |-> <<>>, json |-> <<>>]
               ELSE \E sampled \in sample_outcomes(pool, size) :
                        fs_response' = [raised |-> "", sampled |-> sampled,
                                        json |-> to_json(table, sampled)]
    /\ fs_pc' = "done"
    /\ UNCHANGED notFilter

NextFilter == filter_and_serialize

SpecFilter == Init /\ [][NextFilter]_vars

(***************************************************************************)
(* Claims about the catalog filter.                                        *)
(***************************************************************************)
Matching == filter_rows(fs_df, fs_season, fs_skin_type)

Min3(a, b, c) ==
    LET ab == IF a < b THEN a ELSE b IN IF ab < c THEN ab ELSE c

\* matching rows of a strictly higher rating, or of the same rating and a
\* strictly lower price
StrictlyBetter(i) ==
    { j \in Matching :
        \/ fs_df[j].rating > fs_df[i].rating
        \/ fs_df[j].rating = fs_df[i].rating /\ fs_df[j].price < fs_df[i].price }

\* C15: for every table, season, skin type, pool_n and sample_k the call
\* raises nothing and returns min(sample_k, pool_n, number of rows matching
\* both filters) rows, all different, each one a matching row with fewer than
\* pool_n matching rows ahead of it in (rating descending, price ascending)
\* order; the records written are those rows, and the result is the empty
\* list when no row matches.
C15_SampleOfTopPool ==
    fs_pc = "done" =>
        /\ fs_response.raised = ""
        /\ Len(fs_response.sampled)
             = Min3(fs_sample_k, fs_pool_n, Cardinality(Matching))
        /\ \A a, b \in 1..Len(fs_response.sampled) :
              a # b => fs_response.sampled[a] # fs_response.sampled[b]
        /\ \A a \in 1..Len(fs_response.sampled) :
              /\ fs_response.sampled[a] \in Matching
              /\ Cardinality(StrictlyBetter(fs_response.sampled[a])) < fs_pool_n
        /\ Len(fs_response.json) = Len(fs_response.sampled)
        /\ \A a \in 1..Len(fs_response.json) :
              /\ fs_response.json[a].name = fs_df[fs_response.sampled[a]].name
              /\ fs_response.json[a].price = fs_df[fs_response.sampled[a]].price
              /\ fs_response.json[a].rating = fs_df[fs_response.sampled[a]].rating
        /\ Matching = {} => fs_response.json = <<>>

\* two rows match, fewer than sample_k = 3, a third row does not; both
\* matching rows are returned
C15_Witness ==
    /\ fs_pc = "done"
    /\ Len(fs_df) = 3
    /\ Cardinality(Matching) = 2
    /\ fs_sample_k = 3
    /\ fs_pool_n = 10
    /\ Len(fs_response.json) = 2
    /\ fs_response.raised = ""

(***************************************************************************)
(* darken_color applied again and again, as the loop of lines 222-224      *)
(* applies it to the lipstick colour.                                      *)
(***************************************************************************)
\* the colours darkened: every value 0..255 is the first channel of one
DarkenColors == { <<c, 255 - c, (7 * c) % 256>> : c \in 0..255 }

\* the colour the first application is made on
darken_first ==
    /\ dk_pc = "idle"
    /\ \E color \in DarkenColors :
        /\ dk_color' = color
        /\ dk_previous' = color
    /\ dk_steps' = 0
    /\ dk_pc' = "darkening"
    /\ UNCHANGED notDarken

\* color = darken_color(color)
darken_again ==
    /\ dk_pc = "darkening"
    /\ dk_steps < MaxDarkenSteps
    /\ dk_previous' = dk_color
    /\ dk_color' = darken_color(dk_color)
    /\ dk_steps' = dk_steps + 1
    /\ UNCHANGED dk_pc
    /\ UNCHANGED notDarken

NextDarken ==
    \/ darken_first
    \/ darken_again

SpecDarken == Init /\ [][NextDarken]_vars

(***************************************************************************)
(* Claims about repeated darkening.                                        *)
(***************************************************************************)
\* C16: along the colours darken_color yields from a colour with channels in
\* 0..255, the brightness never increases, every channel that is not zero
\* strictly decreases at each application, after StepsToBlack applications
\* the colour is (0, 0, 0), and (0, 0, 0) stays (0, 0, 0).
C16_DarkeningReachesBlack ==
    (dk_pc = "darkening" /\ dk_steps > 0) =>
        /\ calculate_brightness(dk_color) <= calculate_brightness(dk_previous)
        /\ \A c \in 1..3 :
              /\ dk_color[c] \in 0..255
              /\ dk_previous[c] > 0 => dk_color[c] < dk_previous[c]
        /\ dk_previous = <<0, 0, 0>> => dk_color = <<0, 0, 0>>
        /\ dk_steps >= StepsToBlack => dk_color = <<0, 0, 0>>

\* the application that turns a colour with a channel left at 1 into
\* (0, 0, 0), more than thirty applications after the first
C16_Witness ==
    /\ dk_pc = "darkening"
    /\ dk_steps > 30
    /\ dk_color = <<0, 0, 0>>
    /\ \E c \in 1..3 : dk_previous[c] = 1

====
